---- MODULE Spec2Model ----
(***************************************************************************)
(* Model of poefs/ggpk/node_pdir.go: the PDIR record decoder               *)
(* (ggpkFS.newPdirNode), the hash-indexed child lookup                     *)
(* (pdirNode.ChildNamed), the child listing (pdirNode.Children) and the    *)
(* fs.File adapter with its paging cursor (fsPdirNode).                    *)
(*                                                                         *)
(* Go strings are modelled as sequences of code points, byte slices as     *)
(* sequences of 0..255.  A Go slice that aliases another buffer is         *)
(* modelled by its bounds into that buffer, not by a copy of its bytes.    *)
(***************************************************************************)
EXTENDS Integers, Sequences, FiniteSets, TLC

VARIABLES
    data,     \* the caller's byte buffer that was passed to newPdirNode
    file,     \* g.file: the bytes of the backing store, from address 0
    down,     \* whether the backing store fails its reads at present
    args,     \* the other inputs of newPdirNode (offset, length); writes to data since
    node,     \* the *pdirNode that newPdirNode returned, NoNode before/without one
    fpn,      \* the *fsPdirNode returned by Reader(): its offset field (the cursor)
    murmur,   \* murmur.MurmurHash2(_, 0): a fixed but arbitrary function of the bytes
    ret,      \* what the last call returned, and the collaborator calls it made
    page      \* bookkeeping of one paging session: ReadDir(k) repeated on a fresh adapter

vars == <<data, file, down, args, node, fpn, murmur, ret, page>>

----------------------------------------------------------------------------
(* Bounds of the model *)

MaxChildren == 4      \* longest child table that is listed and paged
MaxLookupChildren == 3 \* longest child table that is searched by name
MaxCount == 3         \* largest n passed to ReadDir
MaxNameLen == 1       \* longest directory name decoded, in UTF-16 code units
MaxDecodeChildren == 1 \* longest child table in the decoder's inputs
MaxWrites == 1        \* writes by the caller to its buffer after decode

(* Constants of the record layout *)

HeaderLen == 40       \* len(data) < 40
SigStart == 8         \* data[8:40]
ChildSize == 12       \* 12*childCount
CharSize == 2         \* one UTF-16 code unit

NoNode == [none |-> TRUE]

----------------------------------------------------------------------------
(* encoding/binary, little endian *)

RECURSIVE LittleEndian(_)
LittleEndian(bs) ==
    IF bs = <<>> THEN 0 ELSE Head(bs) + 256 * LittleEndian(Tail(bs))

\* binary.LittleEndian.Uint32(data[at:])
Uint32(bs, at) == LittleEndian(SubSeq(bs, at + 1, at + 4))

\* binary.Write(buf, binary.LittleEndian, v) for an unsigned value of n bytes
RECURSIVE PutLittleEndian(_, _)
PutLittleEndian(v, n) ==
    IF n = 0 THEN <<>> ELSE <<v % 256>> \o PutLittleEndian(v \div 256, n - 1)

RECURSIVE Flatten(_)
Flatten(ss) == IF ss = <<>> THEN <<>> ELSE Head(ss) \o Flatten(Tail(ss))

----------------------------------------------------------------------------
(* The decoder: ggpkFS.newPdirNode *)

\* g.sizeofChars(nameLength): bytes taken by nameLength UTF-16 code units
sizeofChars(n) == CharSize * n

\* g.readStringFrom(br): the name field is the next nameLength code units of
\* the stream, little endian; the rest of the stream follows it.
RECURSIVE utf16Units(_)
utf16Units(bs) ==
    IF Len(bs) < CharSize THEN <<>>
    ELSE <<LittleEndian(SubSeq(bs, 1, CharSize))>>
             \o utf16Units(SubSeq(bs, CharSize + 1, Len(bs)))

readStringFrom(br, nameLength) ==
    IF Len(br) < sizeofChars(nameLength)
    THEN [err |-> "EOF", name |-> <<>>, rest |-> br]
    ELSE [err |-> "nil",
          name |-> utf16Units(SubSeq(br, 1, sizeofChars(nameLength))),
          rest |-> SubSeq(br, sizeofChars(nameLength) + 1, Len(br))]

\* g.file.ReadAt(p, off) with len(p) = n: all n bytes or an error
ReadAt(f, fails, n, off) ==
    IF fails \/ off + n > Len(f)
    THEN [err |-> "ioerr", data |-> <<>>]
    ELSE [err |-> "nil", data |-> SubSeq(f, off + 1, off + n)]

\* lines 33-43: the two checks that answer errNodeTooShort
TooShortNoLengthCheck(buf, length) == Len(buf) < HeaderLen

nodeTooShort(buf, length) ==
    \/ Len(buf) < HeaderLen
    \/ length # HeaderLen + sizeofChars(Uint32(buf, 0)) + ChildSize * Uint32(buf, 4)

\* lines 45-51: the re-read of a record the buffer does not hold whole
RefetchOnlyTheRest(buf, offset, length, f, fails) ==
    IF Len(buf) < length
    THEN LET rd == ReadAt(f, fails, length - Len(buf), offset + Len(buf))
         IN  [err |-> rd.err, data |-> buf \o rd.data,
              reads |-> <<[off |-> offset + Len(buf), len |-> length - Len(buf)]>>]
    ELSE [err |-> "nil", data |-> buf, reads |-> <<>>]

refetch(buf, offset, length, f, fails) ==
    IF Len(buf) < length
    THEN LET rd == ReadAt(f, fails, length, offset)
         IN  [err |-> rd.err, data |-> rd.data,
              reads |-> <<[off |-> offset, len |-> length]>>]
    ELSE [err |-> "nil", data |-> buf, reads |-> <<>>]

\* lines 66-79: childCount entries of (Hash uint32, Offset int64)
RECURSIVE readChildren(_, _)
readChildren(br, count) ==
    IF count = 0 THEN [err |-> "nil", children |-> <<>>]
    ELSE IF Len(br) < ChildSize THEN [err |-> "child", children |-> <<>>]
    ELSE LET rest == readChildren(SubSeq(br, ChildSize + 1, Len(br)), count - 1)
         IN  IF rest.err # "nil" THEN rest
             ELSE [err |-> "nil",
                   children |-> <<[offset |-> LittleEndian(SubSeq(br, 5, 12)),
                                   hash |-> Uint32(br, 0)]>> \o rest.children]

\* The whole of newPdirNode.  The signature is the slice data[8:40] of the
\* buffer the caller passed, taken before data is rebound to the re-read
\* buffer: it is kept as the bounds of that slice.
newPdirNode(buf, offset, length, f, fails) ==
    IF nodeTooShort(buf, length)
    THEN [node |-> NoNode, err |-> "errNodeTooShort", reads |-> <<>>]
    ELSE LET nameLength == Uint32(buf, 0)
             childCount == Uint32(buf, 4)
             rf == refetch(buf, offset, length, f, fails)
         IN  IF rf.err # "nil"
             THEN [node |-> NoNode, err |-> "readPDIR", reads |-> rf.reads]
             ELSE LET nm == readStringFrom(SubSeq(rf.data, HeaderLen + 1, Len(rf.data)),
                                           nameLength)
                  IN  IF nm.err # "nil"
                      THEN [node |-> NoNode, err |-> "readName", reads |-> rf.reads]
                      ELSE LET ch == readChildren(nm.rest, childCount)
                           IN  IF ch.err # "nil"
                               THEN [node |-> NoNode, err |-> "readChild",
                                     reads |-> rf.reads]
                               ELSE [node |-> [name |-> nm.name,
                                               signature |-> [lo |-> SigStart,
                                                              hi |-> HeaderLen],
                                               children |-> ch.children],
                                     err |-> "nil", reads |-> rf.reads]

\* The bytes n.signature denotes now: it aliases the caller's buffer
SignatureOf(n, buf) == SubSeq(buf, n.signature.lo + 1, n.signature.hi)

----------------------------------------------------------------------------
(* The backing store seen through g.getNodeAt *)

\* The nodes of the archive, by record offset: two nodes of one name, a name
\* that differs from it by case only, and a record that cannot be read.
NodeTable ==
    (64  :> [name |-> <<97>>, dir |-> FALSE, unreadable |-> FALSE]) @@
    (76  :> [name |-> <<97>>, dir |-> TRUE,  unreadable |-> FALSE]) @@
    (88  :> [name |-> <<65>>, dir |-> FALSE, unreadable |-> FALSE]) @@
    (100 :> [name |-> <<>>,   dir |-> FALSE, unreadable |-> TRUE])

Offsets == DOMAIN NodeTable

\* g.getNodeAt(offset): the node whose record is at offset, or the error of
\* the read when the store fails or the record cannot be read
getNodeAt(offset) ==
    IF down \/ offset \notin Offsets \/ NodeTable[offset].unreadable
    THEN [err |-> "ioerr", node |-> NoNode]
    ELSE [err |-> "nil",
          node |-> [offset |-> offset, name |-> NodeTable[offset].name,
                    dir |-> NodeTable[offset].dir]]

----------------------------------------------------------------------------
(* pdirNode.Children *)

RECURSIVE ChildrenSkipUnreadable(_)
ChildrenSkipUnreadable(children) ==
    IF children = <<>> THEN [err |-> "nil", nodes |-> <<>>, calls |-> <<>>]
    ELSE LET c == getNodeAt(Head(children).offset)
             rest == ChildrenSkipUnreadable(Tail(children))
         IN  [err |-> "nil",
              nodes |-> (IF c.err # "nil" THEN <<>> ELSE <<c.node>>) \o rest.nodes,
              calls |-> <<Head(children).offset>> \o rest.calls]

\* lines 84-94: resolve each child in turn, give up at the first error
RECURSIVE Children(_)
Children(children) ==
    IF children = <<>> THEN [err |-> "nil", nodes |-> <<>>, calls |-> <<>>]
    ELSE LET c == getNodeAt(Head(children).offset)
         IN  IF c.err # "nil"
             THEN [err |-> c.err, nodes |-> <<>>, calls |-> <<Head(children).offset>>]
             ELSE LET rest == Children(Tail(children))
                  IN  [err |-> rest.err,
                       nodes |-> IF rest.err # "nil" THEN <<>>
                                 ELSE <<c.node>> \o rest.nodes,
                       calls |-> <<Head(children).offset>> \o rest.calls]

----------------------------------------------------------------------------
(* pdirNode.ChildNamed *)

\* strings.ToLower, on the letters the model uses (ASCII)
ToLower(name) ==
    [i \in 1..Len(name) |-> IF name[i] >= 65 /\ name[i] <= 90
                            THEN name[i] + 32 ELSE name[i]]

\* utf16.Encode([]rune(s)): one unit per code point of the basic plane, the
\* replacement character for a surrogate code point, a pair above the plane
RECURSIVE utf16Encode(_)
utf16Encode(runes) ==
    IF runes = <<>> THEN <<>>
    ELSE LET r == Head(runes)
         IN  (IF r >= 55296 /\ r <= 57343 THEN <<65533>>
              ELSE IF r < 65536 THEN <<r>>
              ELSE <<55296 + (((r - 65536) \div 1024) % 1024),
                     56320 + ((r - 65536) % 1024)>>)
             \o utf16Encode(Tail(runes))

\* lines 97-106: the bytes that are hashed
codepointBytes(name) ==
    LET codepoints == utf16Encode(ToLower(name))
    IN  Flatten([i \in 1..Len(codepoints) |-> PutLittleEndian(codepoints[i], 2)])

\* line 107
nameHash(name) == murmur[codepointBytes(name)]

RECURSIVE ScanFirstHashWins(_, _, _)
ScanFirstHashWins(children, h, name) ==
    IF children = <<>> THEN [err |-> "ErrNotExist", nodes |-> <<>>, calls |-> <<>>]
    ELSE IF Head(children).hash = h
    THEN LET cn == getNodeAt(Head(children).offset)
         IN  IF cn.err # "nil"
             THEN [err |-> cn.err, nodes |-> <<>>, calls |-> <<Head(children).offset>>]
             ELSE [err |-> "nil", nodes |-> <<cn.node>>,
                   calls |-> <<Head(children).offset>>]
    ELSE ScanFirstHashWins(Tail(children), h, name)

RECURSIVE ScanEveryChild(_, _, _)
ScanEveryChild(children, h, name) ==
    IF children = <<>> THEN [err |-> "ErrNotExist", nodes |-> <<>>, calls |-> <<>>]
    ELSE LET cn == getNodeAt(Head(children).offset)
         IN  IF cn.err # "nil"
             THEN [err |-> cn.err, nodes |-> <<>>, calls |-> <<Head(children).offset>>]
             ELSE IF Head(children).hash = h /\ cn.node.name = name
             THEN [err |-> "nil", nodes |-> <<cn.node>>,
                   calls |-> <<Head(children).offset>>]
             ELSE LET rest == ScanEveryChild(Tail(children), h, name)
                  IN  [rest EXCEPT !.calls = <<Head(children).offset>> \o @]

\* lines 108-119: resolve the children whose hash is h until one has the name
RECURSIVE scanChildren(_, _, _)
scanChildren(children, h, name) ==
    IF children = <<>> THEN [err |-> "ErrNotExist", nodes |-> <<>>, calls |-> <<>>]
    ELSE IF Head(children).hash = h
    THEN LET cn == getNodeAt(Head(children).offset)
         IN  IF cn.err # "nil"
             THEN [err |-> cn.err, nodes |-> <<>>, calls |-> <<Head(children).offset>>]
             ELSE IF cn.node.name = name
             THEN [err |-> "nil", nodes |-> <<cn.node>>,
                   calls |-> <<Head(children).offset>>]
             ELSE LET rest == scanChildren(Tail(children), h, name)
                  IN  [rest EXCEPT !.calls = <<Head(children).offset>> \o @]
    ELSE scanChildren(Tail(children), h, name)

ChildNamed(children, name) == scanChildren(children, nameHash(name), name)

----------------------------------------------------------------------------
(* fsPdirNode.ReadDir *)

\* dirents[from:]
SliceFrom(s, from) == SubSeq(s, from + 1, Len(s))

\* lines 156-159: n <= 0
ReadDirAllFromCursor(dirents, offset) ==
    [err |-> "nil", nodes |-> SliceFrom(dirents, offset), offset |-> 0]

readDirAll(dirents, offset) ==
    [err |-> "nil", nodes |-> dirents, offset |-> 0]

\* lines 161-168: n > 0
ReadDirPageStrict(dirents, offset, n) ==
    LET rest == SliceFrom(dirents, offset)
    IN  IF Len(rest) >= n
        THEN [err |-> "nil", nodes |-> SubSeq(rest, 1, n), offset |-> offset + n]
        ELSE [err |-> "EOF", nodes |-> rest, offset |-> offset + Len(rest)]

ReadDirPageStuck(dirents, offset, n) ==
    LET rest == SliceFrom(dirents, offset)
    IN  IF Len(rest) > n
        THEN [err |-> "nil", nodes |-> SubSeq(rest, 1, n), offset |-> offset + n]
        ELSE [err |-> "EOF", nodes |-> rest, offset |-> offset]

ReadDirPageOverrun(dirents, offset, n) ==
    LET rest == SliceFrom(dirents, offset)
    IN  IF Len(rest) > n
        THEN [err |-> "nil", nodes |-> SubSeq(rest, 1, n), offset |-> offset + n]
        ELSE [err |-> "EOF", nodes |-> rest, offset |-> offset + n]

readDirPage(dirents, offset, n) ==
    LET rest == SliceFrom(dirents, offset)
    IN  IF Len(rest) > n
        THEN [err |-> "nil", nodes |-> SubSeq(rest, 1, n), offset |-> offset + n]
        ELSE [err |-> "EOF", nodes |-> rest, offset |-> offset + Len(rest)]

\* The whole of ReadDir: the new cursor, the entries, the error, and the
\* getNodeAt calls made by Children
ReadDir(children, offset, n) ==
    LET all == Children(children)
    IN  IF all.err # "nil"
        THEN [err |-> all.err, nodes |-> <<>>, offset |-> offset, calls |-> all.calls]
        ELSE LET r == IF n <= 0 THEN readDirAll(all.nodes, offset)
                      ELSE readDirPage(all.nodes, offset, n)
             IN  [err |-> r.err, nodes |-> r.nodes, offset |-> r.offset,
                  calls |-> all.calls]

----------------------------------------------------------------------------
(* Inputs: PDIR records as they lie in the archive *)

\* 32 signature bytes, all different, starting at b
SignatureBytes(b) == [i \in 1..(HeaderLen - SigStart) |-> b + i]

\* The record layout that newPdirNode reads: name length, child count,
\* signature, name, then (hash uint32, offset int64) per child
EncodeRecord(name, sig, children) ==
    PutLittleEndian(Len(name), 4) \o PutLittleEndian(Len(children), 4) \o sig
        \o Flatten([i \in 1..Len(name) |-> PutLittleEndian(name[i], CharSize)])
        \o Flatten([i \in 1..Len(children) |->
                       PutLittleEndian(children[i].hash, 4)
                           \o PutLittleEndian(children[i].offset, 8)])

Hashes == {1, 258}
ChildRefs == [offset : Offsets, hash : Hashes]
ChildTables == UNION {[1..k -> ChildRefs] : k \in 0..MaxLookupChildren}

\* Listing and paging never read the stored hashes: one value stands for all
ListingRefs == {r \in ChildRefs : r.hash = 258}
ListingTables == UNION {[1..k -> ListingRefs] : k \in 0..MaxChildren}

\* The names looked up: two that differ by case only, and one no node has
Names == {<<97>>, <<65>>, <<98>>}
HashInputs == {codepointBytes(n) : n \in Names}

DirName == <<100>>

Result(op, arg, at, r) ==
    [op |-> op, arg |-> arg, at |-> at, down |-> down, err |-> r.err,
     nodes |-> r.nodes, calls |-> r.calls]

NoResult == [err |-> "nil", nodes |-> <<>>, calls |-> <<>>]

NoPage == [k |-> 0, acc |-> <<>>, ncalls |-> 0, eofAt |-> 0]

----------------------------------------------------------------------------
(* The directory node and its adapter *)

\* A directory decoded from a whole record with child table cs, the adapter
\* that Reader() gives for it, and m for the hash function
InitNode(cs, m) ==
        LET bytes == EncodeRecord(DirName, SignatureBytes(0), cs)
            d == newPdirNode(bytes, 0, Len(bytes), bytes, FALSE)
        IN  /\ data = bytes
            /\ file = bytes
            /\ down = FALSE
            /\ args = [offset |-> 0, length |-> Len(bytes), writes |-> 0]
            /\ node = d.node
            /\ fpn = [offset |-> 0]
            /\ murmur = m
            /\ ret = Result("newPdirNode", 0, 0,
                            [err |-> d.err, nodes |-> <<>>, calls |-> d.reads])
            /\ page = NoPage

Init == \E cs \in ListingTables : InitNode(cs, [b \in HashInputs |-> 258])

\* pdirNode.Reader
CallReader ==
    /\ fpn' = [offset |-> 0]
    /\ ret' = Result("Reader", 0, 0, NoResult)
    /\ UNCHANGED <<data, file, down, args, node, murmur, page>>

\* fsPdirNode.Read
CallRead ==
    /\ ret' = Result("Read", 0, fpn.offset, [NoResult EXCEPT !.err = "errNotFile"])
    /\ UNCHANGED <<data, file, down, args, node, fpn, murmur, page>>

\* fsPdirNode.Close
CallClose ==
    /\ ret' = Result("Close", 0, fpn.offset, NoResult)
    /\ UNCHANGED <<data, file, down, args, node, fpn, murmur, page>>

\* fsPdirNode.Stat and the accessors of the fsPdirNodeStat it returns
StatOf(n, buf) ==
    [name |-> n.name, size |-> 0, dir |-> TRUE, provenance |-> "GGPK",
     signature |-> SignatureOf(n, buf)]

CallStat ==
    /\ ret' = Result("Stat", 0, fpn.offset,
                     [NoResult EXCEPT !.nodes = <<StatOf(node, data)>>])
    /\ UNCHANGED <<data, file, down, args, node, fpn, murmur, page>>

\* fsPdirNode.ReadDir(n)
CallReadDir ==
    \E n \in -1..MaxCount :
        LET r == ReadDir(node.children, fpn.offset, n)
        IN  /\ fpn' = [offset |-> r.offset]
            /\ ret' = Result("ReadDir", n, fpn.offset, r)
            /\ UNCHANGED <<data, file, down, args, node, murmur, page>>

\* pdirNode.Children
CallChildren ==
    /\ ret' = Result("Children", 0, fpn.offset, Children(node.children))
    /\ UNCHANGED <<data, file, down, args, node, fpn, murmur, page>>

\* pdirNode.ChildNamed(name)
CallChildNamed ==
    \E name \in Names :
        /\ ret' = Result("ChildNamed", name, fpn.offset, ChildNamed(node.children, name))
        /\ UNCHANGED <<data, file, down, args, node, fpn, murmur, page>>

\* The backing store starts to fail its reads, or recovers
StoreFault ==
    /\ down' = ~down
    /\ UNCHANGED <<data, file, args, node, fpn, murmur, ret, page>>

Next ==
    \/ StoreFault
    \/ CallReader
    \/ CallRead
    \/ CallClose
    \/ CallStat
    \/ CallReadDir
    \/ CallChildren

Spec == Init /\ [][Next]_vars

----------------------------------------------------------------------------
(* Lookups by name, for every child table and every hash function *)

InitLookup == \E cs \in ChildTables, m \in [HashInputs -> Hashes] : InitNode(cs, m)

NextLookup ==
    \/ StoreFault
    \/ CallChildNamed

SpecLookup == InitLookup /\ [][NextLookup]_vars

----------------------------------------------------------------------------
(* One paging session: ReadDir(k) again and again on a fresh adapter *)

MaxCalls == MaxChildren + 2

InitPaging == Init

\* Reader(), and the page size the caller will use on it
FreshReader ==
    \E k \in 1..MaxCount :
        /\ fpn' = [offset |-> 0]
        /\ page' = [k |-> k, acc |-> <<>>, ncalls |-> 0, eofAt |-> 0]
        /\ ret' = Result("Reader", k, 0, NoResult)
        /\ UNCHANGED <<data, file, down, args, node, murmur>>

\* ReadDir(k); the session keeps the batches up to the first io.EOF
PagedReadDir ==
    /\ page.k > 0
    /\ page.ncalls < MaxCalls
    /\ LET r == ReadDir(node.children, fpn.offset, page.k)
       IN  /\ fpn' = [offset |-> r.offset]
           /\ ret' = Result("ReadDir", page.k, fpn.offset, r)
           /\ page' = [k |-> page.k,
                       acc |-> IF page.eofAt = 0 THEN page.acc \o r.nodes ELSE page.acc,
                       ncalls |-> page.ncalls + 1,
                       eofAt |-> IF page.eofAt = 0 /\ r.err = "EOF"
                                 THEN page.ncalls + 1 ELSE page.eofAt]
    /\ UNCHANGED <<data, file, down, args, node, murmur>>

NextPaging ==
    \/ FreshReader
    \/ PagedReadDir

SpecPaging == InitPaging /\ [][NextPaging]_vars

----------------------------------------------------------------------------
(* Decoding: newPdirNode on a buffer that may hold only part of the record *)

DecodeChars == {97, 65}
DecodeNames == UNION {[1..k -> DecodeChars] : k \in 0..MaxNameLen}
DecodeRefs == {[offset |-> 64, hash |-> 258], [offset |-> 88, hash |-> 1]}
DecodeTables == UNION {[1..k -> DecodeRefs] : k \in 0..MaxDecodeChildren}
Padding(n) == [i \in 1..n |-> 238]

InitDecode ==
    \E name \in DecodeNames, cs \in DecodeTables, off \in {0, 3},
       fails \in BOOLEAN, kind \in {"same", "other", "short"} :
        LET rec == EncodeRecord(name, SignatureBytes(0), cs)
            other == EncodeRecord(ToLower(name), SignatureBytes(64),
                                  [i \in 1..Len(cs) |-> [cs[i] EXCEPT !.hash = 1]])
        IN  \E have \in {HeaderLen - 1, HeaderLen, Len(rec) - 1, Len(rec), Len(rec) + 1},
               length \in {Len(rec) - 1, Len(rec), Len(rec) + ChildSize} :
                /\ data = SubSeq(rec \o <<0>>, 1, have)
                /\ file = Padding(off) \o
                            (CASE kind = "same" -> rec
                               [] kind = "other" -> other
                               [] kind = "short" -> SubSeq(rec, 1, Len(rec) - 1))
                /\ down = fails
                /\ args = [offset |-> off, length |-> length, writes |-> 0]
                /\ node = NoNode
                /\ fpn = [offset |-> 0]
                /\ murmur = [b \in HashInputs |-> 1]
                /\ ret = Result("none", 0, 0, NoResult)
                /\ page = NoPage

\* g.newPdirNode(data, offset, length)
CallNewPdirNode ==
    /\ ret.op = "none"
    /\ LET d == newPdirNode(data, args.offset, args.length, file, down)
       IN  /\ node' = d.node
           /\ ret' = Result("newPdirNode", 0, 0,
                            [err |-> d.err, nodes |-> <<>>, calls |-> d.reads])
    /\ UNCHANGED <<data, file, down, args, fpn, murmur, page>>

\* The caller reuses its buffer after the call: data[i]++
WritePositions == {0, SigStart, HeaderLen - 1}

WriteBuffer ==
    /\ ret.op # "none"
    /\ args.writes < MaxWrites
    /\ \E i \in WritePositions :
        /\ i < Len(data)
        /\ data' = [data EXCEPT ![i + 1] = (@ + 1) % 256]
    /\ args' = [args EXCEPT !.writes = @ + 1]
    /\ UNCHANGED <<file, down, node, fpn, murmur, ret, page>>

\* Stat().Signature() on the decoded node
CallSignature ==
    /\ node # NoNode
    /\ ret' = Result("Signature", 0, 0,
                     [NoResult EXCEPT !.nodes = <<SignatureOf(node, data)>>])
    /\ UNCHANGED <<data, file, down, args, node, fpn, murmur, page>>

NextDecode ==
    \/ CallNewPdirNode
    \/ WriteBuffer
    \/ CallSignature

SpecDecode == InitDecode /\ [][NextDecode]_vars

----------------------------------------------------------------------------
(* Properties *)

\* The i-th child resolved during the last call
Resolves(i) == ~ret.down /\ ~NodeTable[node.children[i].offset].unreadable
AllResolve == \A i \in 1..Len(node.children) : Resolves(i)

\* The nodes of the children, in stored order
NodeOf(i) ==
    [offset |-> node.children[i].offset, name |-> NodeTable[node.children[i].offset].name,
     dir |-> NodeTable[node.children[i].offset].dir]
Listing == [i \in 1..Len(node.children) |-> NodeOf(i)]
OffsetsUpTo(k) == [i \in 1..k |-> node.children[i].offset]

Min(S) == CHOOSE x \in S : \A y \in S : x <= y

\* Entries that were left after the cursor when the last call began
Remaining == Len(node.children) - ret.at

\* C1 as stated: ReadDir(n) with n <= 0 and every child resolving returns
\* the entries from the cursor to the end, in stored order, and leaves the
\* cursor at 0.
C1_AllReturnsRemaining ==
    (ret.op = "ReadDir" /\ ret.arg <= 0 /\ AllResolve) =>
        /\ ret.err = "nil"
        /\ ret.nodes = SliceFrom(Listing, ret.at)
        /\ fpn.offset = 0

\* C1 amended: ReadDir(n) with n <= 0 and every child resolving returns the
\* whole listing, in stored order, wherever the cursor was, and leaves the
\* cursor at 0.
C1_AllReturnsWholeListing ==
    (ret.op = "ReadDir" /\ ret.arg <= 0 /\ AllResolve) =>
        /\ ret.err = "nil"
        /\ ret.nodes = Listing
        /\ fpn.offset = 0

C1_Witness ==
    /\ ret.op = "ReadDir" /\ ret.arg <= 0 /\ AllResolve
    /\ ret.at > 0 /\ ret.at < Len(node.children)

\* C2 as stated: for ReadDir(n) with n > 0 and every child resolving, with r
\* entries left: r >= n gives exactly n entries, the cursor advanced by n and
\* no end-of-sequence; r < n gives the r entries left, the cursor at the end
\* and end-of-sequence.
C2_EofIffFewerThanCount ==
    (ret.op = "ReadDir" /\ ret.arg > 0 /\ AllResolve) =>
        IF Remaining >= ret.arg
        THEN /\ ret.err = "nil"
             /\ ret.nodes = SubSeq(Listing, ret.at + 1, ret.at + ret.arg)
             /\ fpn.offset = ret.at + ret.arg
        ELSE /\ ret.err = "EOF"
             /\ ret.nodes = SliceFrom(Listing, ret.at)
             /\ fpn.offset = Len(node.children)

\* C2 amended: r > n gives exactly n entries, the cursor advanced by n and no
\* end-of-sequence; r <= n gives the r entries left, the cursor at the end and
\* end-of-sequence: end-of-sequence is signaled if and only if r <= n.
C2_EofIffNoMoreThanCount ==
    (ret.op = "ReadDir" /\ ret.arg > 0 /\ AllResolve) =>
        IF Remaining > ret.arg
        THEN /\ ret.err = "nil"
             /\ ret.nodes = SubSeq(Listing, ret.at + 1, ret.at + ret.arg)
             /\ fpn.offset = ret.at + ret.arg
        ELSE /\ ret.err = "EOF"
             /\ ret.nodes = SliceFrom(Listing, ret.at)
             /\ fpn.offset = Len(node.children)

C2_Witness ==
    /\ ret.op = "ReadDir" /\ ret.arg > 0 /\ AllResolve
    /\ Remaining = ret.arg
    /\ ret.err = "EOF" /\ Len(ret.nodes) = ret.arg

\* C3: on a fresh adapter with every child resolving, repeated ReadDir(k),
\* k > 0, returns consecutive batches in stored order; io.EOF comes within
\* floor(L/k)+1 calls; the batches up to and including the first io.EOF make
\* up the whole listing; every later call returns no entry and io.EOF.
C3_PagingCoversListingOnce ==
    (page.k > 0 /\ AllResolve) =>
        LET L == Len(node.children)
        IN  /\ page.acc = SubSeq(Listing, 1, Len(page.acc))
            /\ page.eofAt = 0 => fpn.offset = Len(page.acc)
            /\ page.ncalls >= (L \div page.k) + 1 =>
                   (page.eofAt > 0 /\ page.eofAt <= (L \div page.k) + 1)
            /\ page.eofAt > 0 => (page.acc = Listing /\ fpn.offset = L)
            /\ (page.eofAt > 0 /\ page.ncalls > page.eofAt) =>
                   (ret.nodes = <<>> /\ ret.err = "EOF")

\* Four children read two at a time: io.EOF with the second batch, then a
\* third call
C3_Witness ==
    /\ page.k = 2 /\ AllResolve /\ Len(node.children) = 4
    /\ page.eofAt = 2 /\ page.ncalls = 3

\* The children a lookup of ret.arg may find
HashMatch(name) == {i \in 1..Len(node.children) : node.children[i].hash = nameHash(name)}
Hits(name) == {i \in HashMatch(name) :
                  Resolves(i) /\ NodeOf(i).name = name}

\* C4: a ChildNamed(name) in which no resolution fails returns the first
\* child in stored order whose stored hash is the hash of name and whose
\* name is exactly name, and fs.ErrNotExist when there is none, also when
\* children share the hash under another name.
C4_ExactNameAmongHashMatches ==
    (ret.op = "ChildNamed" /\ ret.err # "ioerr") =>
        IF Hits(ret.arg) = {}
        THEN ret.err = "ErrNotExist" /\ ret.nodes = <<>>
        ELSE /\ ret.err = "nil"
             /\ ret.nodes = <<Listing[Min(Hits(ret.arg))]>>
             /\ ret.nodes[1].name = ret.arg

\* Two children of one stored hash and different names, the one looked up
\* standing behind the other
C4_Witness ==
    /\ ret.op = "ChildNamed" /\ ret.err = "nil"
    /\ \E i, j \in HashMatch(ret.arg) :
          /\ i < j /\ Resolves(i) /\ Resolves(j)
          /\ Listing[i].name # ret.arg
          /\ Listing[j] = ret.nodes[1]

\* The hash-matching children up to the first exact match, in stored order
Candidates(name) ==
    LET last == IF Hits(name) = {} THEN Len(node.children) ELSE Min(Hits(name))
        idx == SelectSeq([i \in 1..Len(node.children) |-> i],
                         LAMBDA i : i \in HashMatch(name) /\ i <= last)
    IN  [k \in 1..Len(idx) |-> node.children[idx[k]].offset]

\* C5: ChildNamed calls getNodeAt only for children whose stored hash is the
\* hash of the name, in stored order, and for none after the first exact
\* match; with no such child it answers fs.ErrNotExist without any call.
C5_ResolvesOnlyHashMatches ==
    ret.op = "ChildNamed" =>
        /\ Len(ret.calls) <= Len(Candidates(ret.arg))
        /\ ret.calls = SubSeq(Candidates(ret.arg), 1, Len(ret.calls))
        /\ HashMatch(ret.arg) = {} => (ret.err = "ErrNotExist" /\ ret.calls = <<>>)

C5_Witness ==
    /\ ret.op = "ChildNamed" /\ ret.err = "nil"
    /\ Len(ret.calls) = 2
    /\ Len(ret.calls) < Len(node.children)
    /\ \E i \in 1..Len(node.children) : i \notin HashMatch(ret.arg) /\ i < Min(Hits(ret.arg))

\* C8: Children resolves the child references in stored order; when all
\* resolve it returns their nodes in that order; otherwise it returns the
\* first failure and no node, having resolved nothing after the failing one.
C8_ChildrenAllOrNothing ==
    ret.op = "Children" =>
        IF AllResolve
        THEN /\ ret.err = "nil"
             /\ ret.nodes = Listing
             /\ ret.calls = OffsetsUpTo(Len(node.children))
        ELSE /\ ret.err = "ioerr"
             /\ ret.nodes = <<>>
             /\ ret.calls = OffsetsUpTo(Min({i \in 1..Len(node.children) : ~Resolves(i)}))

C8_Witness ==
    /\ ret.op = "Children" /\ ret.err = "ioerr"
    /\ Len(ret.calls) = 2 /\ Len(node.children) = 3

\* C10: whatever is called on the adapter, the cursor stays within
\* 0..len(children), and a ReadDir that fails leaves it where it was.
C10_CursorInRange ==
    [][/\ fpn'.offset >= 0
       /\ fpn'.offset <= Len(node'.children)
       /\ (ret'.op = "ReadDir" /\ ret'.err = "ioerr") => fpn'.offset = fpn.offset]_vars

\* A ReadDir that failed with the cursor in the middle of the listing
C10_Witness ==
    /\ ret.op = "ReadDir" /\ ret.err = "ioerr"
    /\ ret.at > 0 /\ ret.at < Len(node.children) /\ fpn.offset = ret.at

\* The record length that the header of buf stands for
HeaderRecordLength(buf) ==
    HeaderLen + sizeofChars(Uint32(buf, 0)) + ChildSize * Uint32(buf, 4)

\* C6: newPdirNode on a buffer that holds the header but less than length
\* bytes, length being right for the header, reads the store once, at offset
\* and for length bytes, and when the store holds the record that the buffer
\* begins, the node has the name, signature and children that decoding the
\* whole record gives; on a buffer of length bytes or more it reads nothing.
C6_TruncatedBufferRefetchedOnce ==
    (/\ ret.op = "newPdirNode" /\ args.writes = 0
     /\ Len(data) >= HeaderLen /\ args.length = HeaderRecordLength(data)) =>
        IF Len(data) < args.length
        THEN /\ ret.calls = <<[off |-> args.offset, len |-> args.length]>>
             /\ (/\ ~down
                 /\ Len(file) >= args.offset + args.length
                 /\ data = SubSeq(file, args.offset + 1, args.offset + Len(data))) =>
                    LET whole == SubSeq(file, args.offset + 1, args.offset + args.length)
                        up == newPdirNode(whole, args.offset, args.length, file, down)
                    IN  /\ up.node # NoNode /\ up.reads = <<>>
                        /\ node # NoNode
                        /\ node.name = up.node.name
                        /\ node.children = up.node.children
                        /\ SignatureOf(node, data) = SignatureOf(up.node, whole)
        ELSE ret.calls = <<>>

C6_Witness ==
    /\ ret.op = "newPdirNode" /\ args.writes = 0
    /\ Len(data) >= HeaderLen /\ Len(data) < args.length
    /\ args.offset > 0
    /\ node # NoNode /\ Len(node.name) > 0 /\ Len(node.children) > 0

\* C7: newPdirNode answers errNodeTooShort, before any read of the store and
\* without a node, when the buffer has fewer than 40 bytes or length is not
\* 40 + the bytes of the name field + 12 * the child count of the header; and
\* every node it returns has length = 40 + name field bytes + 12 * len(children).
C7_LengthMatchesHeader ==
    (ret.op = "newPdirNode" /\ args.writes = 0) =>
        /\ (Len(data) < HeaderLen \/ args.length # HeaderRecordLength(data)) =>
               (ret.err = "errNodeTooShort" /\ ret.calls = <<>> /\ node = NoNode)
        /\ node # NoNode =>
               args.length = HeaderLen + sizeofChars(Uint32(data, 0))
                                 + ChildSize * Len(node.children)

\* A buffer that holds the declared bytes, the declared length being wrong
C7_Witness ==
    /\ ret.op = "newPdirNode" /\ ret.err = "errNodeTooShort"
    /\ Len(data) >= HeaderLen /\ Len(data) >= args.length
    /\ args.length # HeaderRecordLength(data)

\* C9: once newPdirNode has returned a node, its name, its signature and its
\* children keep their values under every later call and every later write
\* of the caller to the buffer it passed.
C9_RecordImmutable ==
    [][node # NoNode =>
          /\ node'.name = node.name
          /\ node'.children = node.children
          /\ SignatureOf(node', data') = SignatureOf(node, data)]_vars

====
